---- MODULE Spec2Model ----
(***************************************************************************)
(* Max-tree construction and attribute filtering                           *)
(* (skimage/morphology/_max_tree.pyx).                                      *)
(*                                                                         *)
(* Arrays are functions over 0..P-1, as the flat C arrays of the source.   *)
(* The shape and the list of raveled neighbour offsets are sequences.      *)
(***************************************************************************)
EXTENDS Integers, Sequences, FiniteSets, TLC

\* ------------------------------------------------------------- bounds
\* 1-D images have 1..MaxLen1D pixels.
MaxLen1D == 4
\* Intensities of 1-D images range over -1..MaxVal (a signed dtype of the
\* fused dtype_t), those of 3x2 images over 0..MaxVal2D.
MaxVal == 1
MaxVal2D == 2

Values == (0 - 1)..MaxVal

\* ------------------------------------------------------------- helpers
Pixels(a) == DOMAIN a

RECURSIVE SeqMin(_)
SeqMin(s) ==
    IF Len(s) = 1 THEN s[1]
    ELSE LET m == SeqMin(Tail(s)) IN IF s[1] <= m THEN s[1] ELSE m

RECURSIVE Size(_)
\* number of elements of an array of the given shape
Size(shape) == IF shape = <<>> THEN 1 ELSE shape[1] * Size(Tail(shape))

\* row-major stride of dimension d (1-based)
Stride(shape, d) == Size(SubSeq(shape, d + 1, Len(shape)))

\* np.unravel_index raises ValueError outside [0, size)
unravel_ok(index, shape) == index >= 0 /\ index < Size(shape)

unravel_index(index, shape) ==
    [d \in 1..Len(shape) |-> (index \div Stride(shape, d)) % shape[d]]

\* ------------------------------------------------------------- find_root
RECURSIVE find_root(_, _)
\* returns the root and the array after path compression
find_root(zpar, index) ==
    IF zpar[index] # index
    THEN LET r == find_root(zpar, zpar[index])
         IN  [zpar |-> [r.zpar EXCEPT ![index] = r.root], root |-> r.root]
    ELSE [zpar |-> zpar, root |-> zpar[index]]

\* ------------------------------------------------------------- canonize
RECURSIVE canonize_from(_, _, _, _)
canonize_from(image, parent, sorted_indices, k) ==
    IF k \notin DOMAIN sorted_indices THEN parent
    ELSE LET p == sorted_indices[k]
             q == parent[p]
             np == IF image[q] = image[parent[q]]
                   THEN [parent EXCEPT ![p] = parent[q]]
                   ELSE parent
         IN  canonize_from(image, np, sorted_indices, k + 1)

RECURSIVE canonize_reversed_from(_, _, _, _)
canonize_reversed_from(image, parent, sorted_indices, k) ==
    IF k \notin DOMAIN sorted_indices THEN parent
    ELSE LET p == sorted_indices[k]
             q == parent[p]
             np == IF image[q] = image[parent[q]]
                   THEN [parent EXCEPT ![p] = parent[q]]
                   ELSE parent
         IN  canonize_reversed_from(image, np, sorted_indices, k - 1)

\* canonize gone wrong: sorted_indices traversed from the last to the first
canonize_reversed(image, parent, sorted_indices) ==
    canonize_reversed_from(image, parent, sorted_indices,
                           Cardinality(DOMAIN sorted_indices) - 1)

canonize(image, parent, sorted_indices) ==
    canonize_from(image, parent, sorted_indices, 0)

\* ------------------------------------------------------------- offsets_to_points
\* offsets_to_points gone wrong: the first offset taken for the smallest
offsets_to_points_first(offsets, shape) ==
    LET neg_shift == 0 - offsets[1]
        center_point == unravel_index(neg_shift, shape)
    IN  [ok |-> unravel_ok(neg_shift, shape)
                /\ \A i \in 1..Len(offsets) : unravel_ok(offsets[i] + neg_shift, shape),
         points |-> [i \in 1..Len(offsets) |->
                       [d \in 1..Len(shape) |->
                          unravel_index(offsets[i] + neg_shift, shape)[d] - center_point[d]]]]

\* ok is FALSE when one of the np.unravel_index calls raises
offsets_to_points(offsets, shape) ==
    LET neg_shift == 0 - SeqMin(offsets)
        center_point == unravel_index(neg_shift, shape)
    IN  [ok |-> unravel_ok(neg_shift, shape)
                /\ \A i \in 1..Len(offsets) : unravel_ok(offsets[i] + neg_shift, shape),
         points |-> [i \in 1..Len(offsets) |->
                       [d \in 1..Len(shape) |->
                          unravel_index(offsets[i] + neg_shift, shape)[d] - center_point[d]]]]

\* ------------------------------------------------------------- _is_valid_coordinate
_is_valid_coordinate(index, coordinates, shape) ==
    LET p_coord == unravel_index(index, shape)
    IN  \A i \in 1..Len(shape) :
           /\ ~(p_coord[i] + coordinates[i] < 0)
           /\ ~(p_coord[i] + coordinates[i] >= shape[i])

\* ------------------------------------------------------------- _build_max_tree
\* one iteration of the loop over the neighbours of p; st = [parent, zpar]
neighbor_step(st, p, i, mask, structure, shape, points) ==
    LET index == p + structure[i]
    IN  IF mask[p] = 0 /\ ~_is_valid_coordinate(p, points[i], shape) THEN st
        ELSE IF st.parent[index] < 0 THEN st
        ELSE LET fr == find_root(st.zpar, index)
             IN  IF fr.root # p
                 THEN [parent |-> [st.parent EXCEPT ![fr.root] = p],
                       zpar   |-> [fr.zpar EXCEPT ![fr.root] = p]]
                 ELSE [parent |-> st.parent, zpar |-> fr.zpar]

RECURSIVE neighbor_loop(_, _, _, _, _, _, _)
\* (the test of st1 only makes TLC evaluate it before the next iteration)
neighbor_loop(st, p, i, mask, structure, shape, points) ==
    IF i > Len(structure) THEN st
    ELSE LET st1 == neighbor_step(st, p, i, mask, structure, shape, points)
         IN  IF st1 = st1
             THEN neighbor_loop(st1, p, i + 1, mask, structure, shape, points)
             ELSE st1

RECURSIVE sweep(_, _, _, _, _, _, _)
\* the traversal of sorted_indices in reversed order, from position k down to 0
sweep(st, k, sorted_indices, mask, structure, shape, points) ==
    IF k < 0 THEN st
    ELSE LET p == sorted_indices[k]
             st1 == [parent |-> [st.parent EXCEPT ![p] = p],
                     zpar   |-> [st.zpar EXCEPT ![p] = p]]
             st2 == neighbor_loop(st1, p, 1, mask, structure, shape, points)
         IN  IF st2 = st2
             THEN sweep(st2, k - 1, sorted_indices, mask, structure, shape, points)
             ELSE st2

\* the parent array before canonize
swept_parent(mask, structure, shape, sorted_indices, points) ==
    LET P == Size(shape)
        unset == [i \in 0..(P - 1) |-> 0 - 1]
    IN  sweep([parent |-> unset, zpar |-> unset], P - 1,
              sorted_indices, mask, structure, shape, points).parent

\* result: ok = FALSE when offsets_to_points raised (parent is then untouched)
_build_max_tree(image, mask, structure, shape, parent, sorted_indices) ==
    LET otp == offsets_to_points(structure, shape)
    IN  IF ~otp.ok THEN [ok |-> FALSE, parent |-> parent, points |-> <<>>]
        ELSE [ok |-> TRUE,
              parent |-> canonize(image,
                                  swept_parent(mask, structure, shape,
                                               sorted_indices, otp.points),
                                  sorted_indices),
              points |-> otp.points]

\* ------------------------------------------------------------- _compute_area
RECURSIVE area_from(_, _, _, _)
area_from(area, parent, sorted_indices, k) ==
    IF k < 0 THEN area
    ELSE LET p == sorted_indices[k]
             q == parent[p]
         IN  IF p = sorted_indices[0]
             THEN area_from(area, parent, sorted_indices, k - 1)
             ELSE area_from([area EXCEPT ![q] = area[q] + area[p]],
                            parent, sorted_indices, k - 1)

_compute_area(image, parent, sorted_indices) ==
    LET ones == [i \in Pixels(image) |-> 1]
    IN  area_from(ones, parent, sorted_indices, Cardinality(Pixels(image)) - 1)

\* ------------------------------------------------------------- _direct_filter
RECURSIVE direct_from(_, _, _, _, _, _, _)
direct_from(image, output, parent, sorted_indices, attribute, threshold, k) ==
    IF k \notin DOMAIN sorted_indices THEN output
    ELSE LET p == sorted_indices[k]
             q == parent[p]
             out == IF p = sorted_indices[0] THEN output
                    ELSE IF image[p] = image[q] THEN [output EXCEPT ![p] = output[q]]
                    ELSE IF attribute[p] < threshold THEN [output EXCEPT ![p] = output[q]]
                    ELSE [output EXCEPT ![p] = image[p]]
         IN  direct_from(image, out, parent, sorted_indices, attribute, threshold, k + 1)

RECURSIVE direct_le_from(_, _, _, _, _, _, _)
direct_le_from(image, output, parent, sorted_indices, attribute, threshold, k) ==
    IF k \notin DOMAIN sorted_indices THEN output
    ELSE LET p == sorted_indices[k]
             q == parent[p]
             out == IF p = sorted_indices[0] THEN output
                    ELSE IF image[p] = image[q] THEN [output EXCEPT ![p] = output[q]]
                    ELSE IF attribute[p] <= threshold THEN [output EXCEPT ![p] = output[q]]
                    ELSE [output EXCEPT ![p] = image[p]]
         IN  direct_le_from(image, out, parent, sorted_indices, attribute, threshold, k + 1)

\* _direct_filter gone wrong: a node is pruned when attribute <= threshold
direct_filter_le(image, output, parent, sorted_indices, attribute, threshold) ==
    LET p_root == sorted_indices[0]
        out0 == IF attribute[p_root] < threshold
                THEN [output EXCEPT ![p_root] = 0]
                ELSE [output EXCEPT ![p_root] = image[p_root]]
    IN  direct_le_from(image, out0, parent, sorted_indices, attribute, threshold, 0)

_direct_filter(image, output, parent, sorted_indices, attribute, threshold) ==
    LET p_root == sorted_indices[0]
        out0 == IF attribute[p_root] < threshold
                THEN [output EXCEPT ![p_root] = 0]
                ELSE [output EXCEPT ![p_root] = image[p_root]]
    IN  direct_from(image, out0, parent, sorted_indices, attribute, threshold, 0)

\* ------------------------------------------------------------- _cut_first_filter
RECURSIVE cut_first_from(_, _, _, _, _, _, _)
cut_first_from(image, output, parent, sorted_indices, attribute, threshold, k) ==
    IF k \notin DOMAIN sorted_indices THEN output
    ELSE LET p == sorted_indices[k]
             q == parent[p]
             out == IF p = sorted_indices[0] THEN output
                    ELSE IF image[p] = image[q] THEN [output EXCEPT ![p] = output[q]]
                    ELSE IF (attribute[p] < threshold) \/ (output[q] < image[q])
                         THEN [output EXCEPT ![p] = output[q]]
                    ELSE [output EXCEPT ![p] = image[p]]
         IN  cut_first_from(image, out, parent, sorted_indices, attribute, threshold, k + 1)

RECURSIVE cut_first_level_from(_, _, _, _, _, _, _)
cut_first_level_from(image, output, parent, sorted_indices, attribute, threshold, k) ==
    IF k \notin DOMAIN sorted_indices THEN output
    ELSE LET p == sorted_indices[k]
             q == parent[p]
             out == IF p = sorted_indices[0] THEN output
                    ELSE IF image[p] = image[q] THEN [output EXCEPT ![p] = output[q]]
                    ELSE IF (attribute[p] < threshold) \/ (output[q] < image[q])
                         THEN [output EXCEPT ![p] = image[q]]
                    ELSE [output EXCEPT ![p] = image[p]]
         IN  cut_first_level_from(image, out, parent, sorted_indices, attribute,
                                  threshold, k + 1)

\* _cut_first_filter gone wrong: a pruned node takes the level of its
\* parent in the image, not the parent's output
cut_first_filter_level(image, output, parent, sorted_indices, attribute, threshold) ==
    LET p_root == sorted_indices[0]
        out0 == IF attribute[p_root] < threshold
                THEN [output EXCEPT ![p_root] = 0]
                ELSE [output EXCEPT ![p_root] = image[p_root]]
    IN  cut_first_level_from(image, out0, parent, sorted_indices, attribute, threshold, 0)

_cut_first_filter(image, output, parent, sorted_indices, attribute, threshold) ==
    LET p_root == sorted_indices[0]
        out0 == IF attribute[p_root] < threshold
                THEN [output EXCEPT ![p_root] = 0]
                ELSE [output EXCEPT ![p_root] = image[p_root]]
    IN  cut_first_from(image, out0, parent, sorted_indices, attribute, threshold, 0)

\* ------------------------------------------------------------- inputs
\* The caller (the Python wrapper) supplies shape, connectivity, mask and
\* the sorted indices.

\* images of at most MaxSmall pixels are also built with a zero offset in the
\* connectivity list, sorted in every ascending order and filtered with
\* attribute arrays of the caller
MaxSmall == 3

\* the shapes of the scenarios of the specification
ScenarioShapes == { <<8>>, <<3, 3>> }

Shapes == { <<n>> : n \in 1..MaxLen1D } \cup { <<3, 2>> } \cup ScenarioShapes

\* the images of scenarios S1, S3 and S4 of the specification
S1Image == [i \in 0..7 |-> <<1, 3, 3, 2, 1, 4, 4, 1>>[i + 1]]
S3Image == [i \in 0..8 |-> <<0, 0, 0, 0, 5, 0, 0, 0, 0>>[i + 1]]
S4Image == [i \in 0..8 |-> <<2, 2, 1, 2, 2, 1, 1, 1, 1>>[i + 1]]

\* 1-D images take every value of Values, 3x2 images the values 0..MaxVal2D;
\* the 8-pixel and the 3x3 images are those of the scenarios
Images(shape) ==
    IF shape = <<8>> THEN { S1Image }
    ELSE IF shape = <<3, 3>> THEN { S3Image, S4Image }
    ELSE IF shape = <<3, 2>> THEN [0..(Size(shape) - 1) -> 0..MaxVal2D]
    ELSE [0..(Size(shape) - 1) -> Values]

\* the neighbourhood as per-dimension displacements: 1-D {-1,+1},
\* 2-D 4-connectivity
Displacements(shape) ==
    IF Len(shape) = 1 THEN << <<0 - 1>>, <<1>> >>
    ELSE << <<0 - 1, 0>>, <<1, 0>>, <<0, 0 - 1>>, <<0, 1>> >>

RECURSIVE ravel(_, _, _)
\* raveled offset of a displacement, dimensions d..D
ravel(disp, shape, d) ==
    IF d > Len(shape) THEN 0
    ELSE disp[d] * Stride(shape, d) + ravel(disp, shape, d + 1)

Offsets(shape) ==
    [k \in 1..Len(Displacements(shape)) |-> ravel(Displacements(shape)[k], shape, 1)]

\* the connectivity lists a caller may pass: the symmetric neighbourhood,
\* alone or (small images and the scenarios) with a zero offset before it
Structures(shape) ==
    IF Size(shape) <= MaxSmall \/ shape \in ScenarioShapes
    THEN { Offsets(shape), <<0>> \o Offsets(shape) }
    ELSE { Offsets(shape) }

InGrid(coord, shape) == \A d \in 1..Len(shape) : coord[d] >= 0 /\ coord[d] < shape[d]

Shifted(p, disp, shape) == [d \in 1..Len(shape) |-> unravel_index(p, shape)[d] + disp[d]]

\* mask = 0 exactly on the pixels that have a neighbour outside the grid
BorderMask(shape) ==
    [p \in 0..(Size(shape) - 1) |->
        IF \E k \in 1..Len(Displacements(shape)) :
              ~InGrid(Shifted(p, Displacements(shape)[k], shape), shape)
        THEN 0 ELSE 1]

\* position of p in the stable ascending sort
Rank(img, p) ==
    Cardinality({ q \in Pixels(img) : img[q] < img[p] \/ (img[q] = img[p] /\ q < p) })

StableSort(img) == [k \in Pixels(img) |-> CHOOSE p \in Pixels(img) : Rank(img, p) = k]

RECURSIVE AscendingOrders(_, _)
\* the orders (as sequences) of the pixels of the set rest in which the
\* intensities ascend
AscendingOrders(img, rest) ==
    IF rest = {} THEN { <<>> }
    ELSE UNION { { <<p>> \o t : t \in AscendingOrders(img, rest \ {p}) } :
                 p \in { x \in rest : \A y \in rest : img[x] <= img[y] } }

\* every ascending order of an image of at most MaxSmall pixels, the stable
\* one of the other images
SortedChoices(img, shape) ==
    IF Size(shape) <= MaxSmall
    THEN { [k \in Pixels(img) |-> t[k + 1]] : t \in AscendingOrders(img, Pixels(img)) }
    ELSE { StableSort(img) }

Zeros(shape) == [p \in 0..(Size(shape) - 1) |-> 0]

\* ------------------------------------------------------------- state
VARIABLES shape, image, mask, structure, sorted_indices,
          parent, points, attribute, threshold, output, output_cut,
          pc, done_direct, done_cut, round, first_output

vars == <<shape, image, mask, structure, sorted_indices,
          parent, points, attribute, threshold, output, output_cut,
          pc, done_direct, done_cut, round, first_output>>

inputs == <<shape, image, mask, structure, sorted_indices>>

Init ==
    /\ shape \in Shapes
    /\ image \in Images(shape)
    /\ mask = BorderMask(shape)
    /\ structure \in Structures(shape)
    /\ sorted_indices \in SortedChoices(image, shape)
    /\ parent = Zeros(shape)
    /\ points = <<>>
    /\ attribute = Zeros(shape)
    /\ threshold = 0
    /\ output = Zeros(shape)
    /\ output_cut = Zeros(shape)
    /\ pc = "start"
    /\ done_direct = FALSE
    /\ done_cut = FALSE
    /\ round = 1
    /\ first_output = Zeros(shape)

\* _build_max_tree(image, mask, structure, shape, parent, sorted_indices)
BuildMaxTree ==
    /\ pc = "start"
    /\ LET r == _build_max_tree(image, mask, structure, shape, parent, sorted_indices)
       IN  /\ parent' = r.parent
           /\ points' = r.points
           /\ pc' = IF r.ok THEN "built" ELSE "failed"
    /\ UNCHANGED <<inputs, attribute, threshold, output, output_cut,
                   done_direct, done_cut, round, first_output>>

\* attribute = _compute_area(image, parent, sorted_indices)
ComputeArea ==
    /\ pc = "built"
    /\ attribute' = _compute_area(image, parent, sorted_indices)
    /\ pc' = "area"
    /\ UNCHANGED <<inputs, parent, points, threshold, output, output_cut,
                   done_direct, done_cut, round, first_output>>

\* the caller passes an attribute array of its own to the filters
SupplyAttribute ==
    /\ pc = "built"
    /\ round = 1
    /\ Size(shape) <= MaxSmall
    /\ \E a \in [Pixels(image) -> {0, 1}] : attribute' = a
    /\ pc' = "supplied"
    /\ UNCHANGED <<inputs, parent, points, threshold, output, output_cut,
                   done_direct, done_cut, round, first_output>>

\* the thresholds a filter call is made with: both filters of one run and
\* the second run use the same one
Thresholds ==
    IF done_direct \/ done_cut \/ round = 2 THEN { threshold }
    ELSE IF pc = "area" THEN 1..(Size(shape) + 1)
    ELSE { 1 }

\* what the caller's output buffer may hold before a filter call: a copy of
\* the image, zeros, or another fill value
Buffers(img) == { img } \cup { [p \in Pixels(img) |-> g] : g \in {0 - 1, 0} }

\* _direct_filter(image, output, parent, sorted_indices, attribute, threshold);
\* the content of the caller's output buffer before the call is arbitrary
DirectFilter ==
    /\ pc \in {"area", "supplied"}
    /\ ~done_direct
    /\ \E t \in Thresholds, buffer \in Buffers(image) :
          /\ threshold' = t
          /\ output' = _direct_filter(image, buffer, parent,
                                     sorted_indices, attribute, t)
    /\ done_direct' = TRUE
    /\ UNCHANGED <<inputs, parent, points, attribute, output_cut,
                   pc, done_cut, round, first_output>>

\* _cut_first_filter(image, output, parent, sorted_indices, attribute, threshold)
CutFirstFilter ==
    /\ pc \in {"area", "supplied"}
    /\ done_direct
    /\ ~done_cut
    /\ \E t \in Thresholds, buffer \in Buffers(image) :
          /\ threshold' = t
          /\ output_cut' = _cut_first_filter(image, buffer, parent,
                                            sorted_indices, attribute, t)
    /\ done_cut' = TRUE
    /\ UNCHANGED <<inputs, parent, points, attribute, output,
                   pc, done_direct, round, first_output>>

\* the output of the area filter becomes the image of a second run of the
\* pipeline, with the same threshold
Refilter ==
    /\ pc = "area"
    /\ done_direct
    /\ ~done_cut
    /\ round = 1
    /\ image' = output
    /\ first_output' = output
    /\ sorted_indices' \in SortedChoices(output, shape)
    /\ round' = 2
    /\ pc' = "start"
    /\ parent' = Zeros(shape)
    /\ points' = <<>>
    /\ attribute' = Zeros(shape)
    /\ output' = Zeros(shape)
    /\ output_cut' = Zeros(shape)
    /\ done_direct' = FALSE
    /\ done_cut' = FALSE
    /\ UNCHANGED <<shape, mask, structure, threshold>>

Next ==
    \/ BuildMaxTree
    \/ ComputeArea
    \/ SupplyAttribute
    \/ DirectFilter
    \/ CutFirstFilter
    \/ Refilter

Spec == Init /\ [][Next]_vars

\* ------------------------------------------------------------- tree notions
RECURSIVE AncestorsFrom(_, _, _)
\* p and the pixels its Parent chain passes through, at most n steps up
AncestorsFrom(par, p, n) ==
    IF n = 0 \/ par[p] = p THEN {p}
    ELSE {p} \cup AncestorsFrom(par, par[p], n - 1)

Ancestors(p) == AncestorsFrom(parent, p, Size(shape))

\* the pixels whose Parent chain passes through n, n included
Descendants(n) == { x \in Pixels(image) : n \in Ancestors(x) }

\* a canonical node: a root, or the representative of its level
Canonical(n) == parent[n] = n \/ image[parent[n]] # image[n]

TreeRoot == sorted_indices[0]

\* two pixels are grid neighbours when their coordinates differ by one in
\* exactly one dimension
Abs(x) == IF x < 0 THEN 0 - x ELSE x

RECURSIVE Distance(_, _, _)
Distance(a, b, d) ==
    IF d > Len(a) THEN 0 ELSE Abs(a[d] - b[d]) + Distance(a, b, d + 1)

GridNeighbours(x, y) ==
    Distance(unravel_index(x, shape), unravel_index(y, shape), 1) = 1

RECURSIVE Grow(_, _)
\* closure of the set S under grid neighbourhood inside the level set L
Grow(S, L) ==
    LET T == S \cup { y \in L : \E x \in S : GridNeighbours(x, y) }
    IN  IF T = S THEN S ELSE Grow(T, L)

\* the connected component containing n of {x : I(x) >= I(n)}
UpperComponent(n) ==
    Grow({n}, { x \in Pixels(image) : image[x] >= image[n] })

CanonicalForm ==
    \A p \in Pixels(image) :
        image[parent[p]] = image[p] =>
            \/ image[parent[parent[p]]] < image[p]
            \/ parent[parent[p]] = parent[p]

SingleRoot ==
    /\ \A p \in Pixels(image) : TreeRoot \in Ancestors(p)
    /\ \A p \in Pixels(image) : parent[p] = p => p = TreeRoot

\* what the filters expect of the parent array
WellFormedTree == SingleRoot /\ CanonicalForm

Built == pc \in {"built", "area", "supplied"}

\* ------------------------------------------------------------- claims

\* C1: after _build_max_tree, the pixels whose Parent chain passes through a
\* canonical node n are exactly the connected component containing n of the
\* upper level set {x : I(x) >= I(n)} under the grid neighbourhood.
C1_SubtreeIsUpperComponent ==
    pc = "built" =>
        \A n \in Pixels(image) : Canonical(n) => Descendants(n) = UpperComponent(n)

C3_SingleRoot == pc = "built" => SingleRoot

\* C4: _compute_area on the built tree gives A[root] = P and, for every
\* canonical node p, the number of pixels whose Parent chain passes through p.
C4_AreaIsSubtreeSize ==
    pc = "area" =>
        /\ attribute[TreeRoot] = Size(shape)
        /\ \A p \in Pixels(image) :
              Canonical(p) => attribute[p] = Cardinality(Descendants(p))

\* the state after the area filter of scenario S1: image S1Image,
\* offsets {-1,+1}, threshold 3, first run of the pipeline
S1Filtered ==
    /\ image = S1Image
    /\ round = 1
    /\ pc = "area"
    /\ done_direct
    /\ threshold = 3

\* C5 as stated: scenario S1 with threshold 3 yields [1,1,1,1,1,1,1,1].
C5_S1AllOnes ==
    S1Filtered => output = [i \in 0..7 |-> 1]

\* C5 (amended): scenario S1 with threshold 3 yields [1,2,2,2,1,1,1,1]: the
\* peaks of area 2 are pruned to the level-2 component {1,2,3} of area 3,
\* which is kept.
C5_S1Output ==
    S1Filtered => output = [i \in 0..7 |-> <<1, 2, 2, 2, 1, 1, 1, 1>>[i + 1]]

C5_Witness == S1Filtered /\ attribute[3] = 3 /\ attribute[1] = 2 /\ attribute[5] = 2

\* C6: the area filter is idempotent: the second run of the pipeline (tree
\* rebuilt and area recomputed on the first output, same threshold) gives the
\* first output again at every pixel.
C6_Idempotent ==
    (round = 2 /\ pc = "area" /\ done_direct) => output = first_output

\* an attribute that is increasing along the tree
IncreasingAttribute ==
    \A p \in Pixels(image) :
        (Canonical(p) /\ parent[p] # p) => attribute[p] <= attribute[parent[p]]

\* C7: on a canonical tree with an increasing attribute, the output of
\* _cut_first_filter is pointwise <= the output of _direct_filter.
C7_CutFirstBelowDirect ==
    (done_direct /\ done_cut /\ WellFormedTree /\ IncreasingAttribute) =>
        \A p \in Pixels(image) : output_cut[p] <= output[p]

\* C7 is witnessed by a supplied increasing attribute whose threshold prunes
\* one branch and keeps another.
C7_Witness ==
    /\ done_direct /\ done_cut /\ WellFormedTree /\ IncreasingAttribute
    /\ pc = "supplied"
    /\ \E p \in Pixels(image) : output[p] < image[p]
    /\ \E p \in Pixels(image) : output[p] = image[p] /\ image[p] > image[TreeRoot]

HasZeroOffset == \E k \in 1..Len(structure) : structure[k] = 0

\* C8 as stated: _build_max_tree called with a zero offset in the
\* connectivity list ends in an error.
C8_ZeroOffsetFails ==
    (HasZeroOffset /\ pc # "start") => pc = "failed"

\* C8 (amended): _build_max_tree does not validate its inputs; a zero offset
\* in the connectivity list changes nothing: the call ends as it does
\* without the zero offset, with the same parent array.
C8_ZeroOffsetIgnored ==
    (HasZeroOffset /\ pc \in {"built", "failed"}) =>
        LET r == _build_max_tree(image, mask, Tail(structure), shape,
                                Zeros(shape), sorted_indices)
        IN  /\ (pc = "built") = r.ok
            /\ parent = r.parent

C8_Witness ==
    /\ HasZeroOffset
    /\ pc = "built"
    /\ Len(shape) = 2
    /\ \E p \in Pixels(image) : parent[p] # TreeRoot

\* C9: in _cut_first_filter, when a canonical ancestor a of p (the root
\* included) has A[a] < threshold, p is not reinstated: Output[p] = Output[a].
C9_NoReinstatement ==
    (done_cut /\ WellFormedTree) =>
        \A p \in Pixels(image) : \A a \in Ancestors(p) \ {p} :
            (Canonical(a) /\ attribute[a] < threshold) => output_cut[p] = output_cut[a]

\* the displacements the offsets of the connectivity list were raveled from
CallerDisplacements ==
    IF structure[1] = 0
    THEN << [d \in 1..Len(shape) |-> 0] >> \o Displacements(shape)
    ELSE Displacements(shape)

\* C10: offsets_to_points returns the true per-dimension displacement of
\* every offset, so that is_valid(p, Points[k], shape) is true iff the grid
\* neighbour of p in that direction exists.
C10_TrueDisplacements ==
    Built =>
        \A k \in 1..Len(structure) :
            /\ points[k] = CallerDisplacements[k]
            /\ \A p \in Pixels(image) :
                  _is_valid_coordinate(p, points[k], shape)
                      = InGrid(Shifted(p, CallerDisplacements[k], shape), shape)

====
